---- MODULE Spec2Model ----
(***************************************************************************)
(* Model of pkg/shop/shop.go of owl-shop: the constructor New (producer    *)
(* construction, sequential initialisation under one shared deadline,      *)
(* background tasks, weighted chooser), the dispatch loop Shop.Start and   *)
(* the per-impression goroutines of Shop.SimulatePageImpression.           *)
(***************************************************************************)
EXTENDS Integers, Sequences, FiniteSets, TLC

\* ------------------------------------------------------------------ bounds
\* largest RequestRate explored
MaxRate == 2
\* number of interval sleeps after which the modelled loop stops
MaxTicks == 2
\* largest number of impressions the modelled loop issues: after a sleep it
\* starts a further tick only if all the impressions of that tick fit
MaxImpressions == 4
\* longest weight table drawn for the chooser specification
MaxChoices == 3
\* largest weight drawn for the chooser specification
MaxWeight == 3

\* --------------------------------------------------------- weighted chooser
\* The chooser is the package weightedrand, which is imported by shop.go and
\* is no part of its source: NewChooser and Pick are modelled as the
\* specification describes the Weighted Action Table and its Chooser.

\* the six weighted choices New passes to weightedrand.NewChooser
ShopChoices ==
  << [Item |-> "CreateFrontendEvent", Weight |-> 1000],
     [Item |-> "CreateCustomer", Weight |-> 50],
     [Item |-> "CreateAddress", Weight |-> 30],
     [Item |-> "DeleteCustomer", Weight |-> 8],
     [Item |-> "ModifyCustomer", Weight |-> 6],
     [Item |-> "CreateOrder", Weight |-> 5] >>

\* the nil *Chooser
NilChooser == [entries |-> << >>, C |-> << >>, total |-> 0]

\* the cumulative-weight sequence of a table, built entry by entry:
\* C[i] = sum(weight[0..i]); acc holds the sums of the entries before i
RECURSIVE CumulativeWeights(_, _, _)
CumulativeWeights(cs, i, acc) ==
  IF i > Len(cs) THEN acc
  ELSE CumulativeWeights(cs, i + 1,
         Append(acc, (IF i = 1 THEN 0 ELSE acc[i - 1]) + cs[i].Weight))

\* construction of the Chooser: [chooser, err]. A table with zero entries or
\* with a non-positive weight is a construction-time error; otherwise the
\* Chooser holds the table as given, its cumulative weights and their total
NewChooser(cs) ==
  IF Len(cs) = 0 \/ (\E k \in 1 .. Len(cs) : cs[k].Weight <= 0)
    THEN [chooser |-> NilChooser, err |-> "bad weight table"]
    ELSE LET C == CumulativeWeights(cs, 1, << >>)
         IN  [chooser |-> [entries |-> cs, C |-> C, total |-> C[Len(C)]],
              err |-> ""]

\* binary search over the cumulative-weight sequence, indices lo .. hi - 1
\* counted from 0: the smallest index i with C[i] > r, hi if there is none
RECURSIVE SearchAbove(_, _, _, _)
SearchAbove(C, r, lo, hi) ==
  IF lo < hi
    THEN LET h == (lo + hi) \div 2
         IN  IF C[h + 1] > r
               THEN SearchAbove(C, r, lo, h)
               ELSE SearchAbove(C, r, h + 1, hi)
    ELSE lo

\* the values a uniform draw in [0, total) can take
DrawRange(total) == 0 .. (total - 1)

\* pick locating the smallest index i with C[i] >= r
PickIndexAtLeast(c, r) == SearchAbove(c.C, r - 1, 0, Len(c.C))

\* the index, counted from 0, pick locates for the drawn value r
PickIndex(c, r) == SearchAbove(c.C, r, 0, Len(c.C))

\* Chooser.Pick with the drawn value r: the action of the located entry
Pick(c, r) == c.entries[PickIndex(c, r) + 1].Item

\* ------------------------------------------------------------------- state
VARIABLES
  cfg,          \* config.Config: [RequestRate]
  funcItems,    \* the Items whose dynamic type is func()
  choices,      \* the weighted choices handed to NewChooser
  newPc,        \* position of New
  cur,          \* index into Producers of the producer New is working on
  constructed,  \* components whose constructor returned without error
  initCalls,    \* producers whose Initialize was called, in call order
  initOk,       \* producers whose Initialize returned nil
  initFailed,   \* producers whose Initialize returned an error
  ctx,          \* the context of line 58: "none", "armed", "expired", "canceled"
  elapsedInInit,\* the deadline elapsed before the fourth Initialize returned nil
  tasks,        \* addressSvc.Start / orderSvc.Start goroutines
  launches,     \* how many times each background task was launched
  wr,           \* the chooser local of New
  shop,         \* the *Shop New returned: << >> is nil
  err,          \* the error New returned
  startPc,      \* position of Shop.Start
  i,            \* loop variable of Shop.Start
  ticks,        \* how many times the loop reached time.Sleep
  counter,      \* pageImpressionsSimulated
  spawned,      \* goroutines started by SimulatePageImpression
  httpPc,       \* the goroutine around http.ListenAndServe
  units,        \* per-impression goroutines in flight: how many per position
  picked,       \* goroutines past line 130 and before line 132 / 134: how many
                \* hold each Item as fn
  invocations,  \* calls fn() made so far
  finished,     \* per-impression goroutines that returned
  exited,       \* the process was terminated by logger.Fatal
  chooserRes,   \* result of NewChooser applied on its own:
                \* << >> before the call, <<[chooser, err]>> after it
  lastDraw,     \* value drawn in the last Pick made on its own
  lastPick,     \* Item the last Pick made on its own returned
  lastInvoked   \* Item of the last call fn()

newVars == <<newPc, cur, constructed, initCalls, initOk, initFailed, ctx,
             elapsedInInit, launches, wr, shop, err>>
loopVars == <<startPc, i, ticks, counter, spawned>>
unitVars == <<units, picked, invocations, finished, exited, lastInvoked>>
pickVars == <<chooserRes, lastDraw, lastPick>>
inputVars == <<cfg, funcItems, choices>>
vars == <<cfg, funcItems, choices, newPc, cur, constructed, initCalls, initOk,
          initFailed, ctx, elapsedInInit, tasks, launches, wr, shop, err,
          startPc, i, ticks, counter, spawned, httpPc, units, picked,
          invocations, finished, exited, chooserRes, lastDraw, lastPick,
          lastInvoked>>

\* the producers in the order New constructs and initialises them
Producers == <<"customer", "address", "frontend", "order">>

\* the producers with a Start method New launches
Tasks == {"address", "order"}

\* the Items of the shop's weighted choices
Items == {ShopChoices[k].Item : k \in 1 .. Len(ShopChoices)}

\* a nil error
NoErr == [msg |-> "", cause |-> ""]

\* messages of the errors New returns for a failed constructor
CreateErrMsg ==
  [customer |-> "failed to create customer service",
   address |-> "failed to create address service",
   frontend |-> "failed to create frontend service",
   order |-> "failed to create order service"]

\* messages of the errors New returns for a failed Initialize
InitErrMsg ==
  [customer |-> "failed to initialize customer service",
   address |-> "failed to initialize address service",
   frontend |-> "failed to initialize frontend service",
   order |-> "failed to initialize order service"]

\* positions of a per-impression goroutine that holds no fn: started and
\* before line 130, and inside the call fn() of line 134; the goroutines
\* between the two, which hold the fn of line 130, are counted in picked
UnitPick == "pick"
UnitRunning == "running"
UnitStates == {UnitPick, UnitRunning}

\* number of goroutines counted in b for the Items of S
RECURSIVE Holding(_, _)
Holding(b, S) ==
  IF S = {} THEN 0
  ELSE LET it == CHOOSE x \in S : TRUE
       IN  b[it] + Holding(b, S \ {it})

\* the sets of Items that are not of type func() explored
NonFuncCases == {{}, {"CreateOrder"}}

\* state at the entry of New
InitCommon ==
  /\ cfg \in {[RequestRate |-> r] : r \in 1 .. MaxRate}
  /\ funcItems \in {Items \ n : n \in NonFuncCases}
  /\ newPc = "srClient"
  /\ cur = 0
  /\ constructed = {}
  /\ initCalls = << >>
  /\ initOk = {}
  /\ initFailed = {}
  /\ ctx = "none"
  /\ elapsedInInit = FALSE
  /\ tasks = [t \in Tasks |-> "none"]
  /\ launches = [t \in Tasks |-> 0]
  /\ wr = NilChooser
  /\ shop = << >>
  /\ err = NoErr
  /\ startPc = "none"
  /\ i = 0
  /\ ticks = 0
  /\ counter = 0
  /\ spawned = 0
  /\ httpPc = "none"
  /\ units = [u \in UnitStates |-> 0]
  /\ picked = [it \in Items |-> 0]
  /\ invocations = 0
  /\ finished = 0
  /\ exited = FALSE
  /\ chooserRes = << >>
  /\ lastDraw = -1
  /\ lastPick = ""
  /\ lastInvoked = ""

Init == InitCommon /\ choices = ShopChoices

\* ---------------------------------------------------------------------- New
\* deferred cancel() of line 59, run when New returns
Cancel(c) == IF c = "armed" THEN "canceled" ELSE c

\* return nil, e
ReturnErr(e) ==
  /\ newPc' = "returned"
  /\ shop' = << >>
  /\ err' = e
  /\ ctx' = Cancel(ctx)

\* lines 33-36: schemaFactory.NewSchemaRegistryClient()
NewSchemaRegistryClient ==
  /\ newPc = "srClient"
  /\ \E cause \in {"", "schema registry client failed"} :
       IF cause = ""
         THEN /\ newPc' = "construct"
              /\ cur' = 1
              /\ constructed' = constructed \cup {"srClient"}
              /\ UNCHANGED <<shop, err, ctx>>
         ELSE /\ ReturnErr([msg |-> "failed to create schema registry client", cause |-> ""])
              /\ UNCHANGED <<cur, constructed>>
  /\ UNCHANGED <<inputVars, initCalls, initOk, initFailed, elapsedInInit, tasks,
                 launches, wr, loopVars, httpPc, unitVars, pickVars>>

\* the err of a constructor is dropped and New goes on
NewServiceIgnoreErr(p) ==
  /\ newPc = "construct"
  /\ cur \in 1 .. Len(Producers)
  /\ p = Producers[cur]
  /\ \E cause \in {"", "constructor failed"} :
       /\ constructed' = IF cause = "" THEN constructed \cup {p} ELSE constructed
       /\ cur' = IF cur = Len(Producers) THEN 0 ELSE cur + 1
       /\ newPc' = IF cur = Len(Producers) THEN "withTimeout" ELSE "construct"
       /\ UNCHANGED <<shop, err, ctx>>
  /\ UNCHANGED <<inputVars, initCalls, initOk, initFailed, elapsedInInit, tasks,
                 launches, wr, loopVars, httpPc, unitVars, pickVars>>

\* every producer is initialized as soon as it is constructed
NewServiceThenInitialize(p) ==
  /\ newPc = "construct"
  /\ cur \in 1 .. Len(Producers)
  /\ p = Producers[cur]
  /\ \E cause \in {"", "constructor failed"} :
       IF cause = ""
         THEN /\ constructed' = constructed \cup {p}
              /\ initCalls' = Append(initCalls, p)
              /\ initOk' = initOk \cup {p}
              /\ cur' = IF cur = Len(Producers) THEN 0 ELSE cur + 1
              /\ newPc' = IF cur = Len(Producers) THEN "goAddress" ELSE "construct"
              /\ UNCHANGED <<shop, err, ctx>>
         ELSE /\ ReturnErr([msg |-> CreateErrMsg[p], cause |-> cause])
              /\ UNCHANGED <<cur, constructed, initCalls, initOk>>
  /\ UNCHANGED <<inputVars, initFailed, elapsedInInit, tasks, launches, wr,
                 loopVars, httpPc, unitVars, pickVars>>

\* lines 38-56: NewCustomerService .. NewOrderService, each followed by its err check
NewService(p) ==
  /\ newPc = "construct"
  /\ cur \in 1 .. Len(Producers)
  /\ p = Producers[cur]
  /\ \E cause \in {"", "constructor failed"} :
       IF cause = ""
         THEN /\ constructed' = constructed \cup {p}
              /\ cur' = IF cur = Len(Producers) THEN 0 ELSE cur + 1
              /\ newPc' = IF cur = Len(Producers) THEN "withTimeout" ELSE "construct"
              /\ UNCHANGED <<shop, err, ctx>>
         ELSE /\ ReturnErr([msg |-> CreateErrMsg[p], cause |-> cause])
              /\ UNCHANGED <<cur, constructed>>
  /\ UNCHANGED <<inputVars, initCalls, initOk, initFailed, elapsedInInit, tasks,
                 launches, wr, loopVars, httpPc, unitVars, pickVars>>

\* lines 58-59: context.WithTimeout(context.Background(), time.Minute)
WithTimeout ==
  /\ newPc = "withTimeout"
  /\ ctx' = "armed"
  /\ newPc' = "initialize"
  /\ cur' = 1
  /\ UNCHANGED <<inputVars, constructed, initCalls, initOk, initFailed,
                 elapsedInInit, tasks, launches, wr, shop, err, loopVars, httpPc,
                 unitVars, pickVars>>

\* the timer of the context fires after time.Minute
DeadlineElapses ==
  /\ ctx = "armed"
  /\ ctx' = "expired"
  /\ elapsedInInit' = (elapsedInInit \/ newPc \in {"initialize", "initializing"})
  /\ UNCHANGED <<inputVars, newPc, cur, constructed, initCalls, initOk, initFailed,
                 tasks, launches, wr, shop, err, loopVars, httpPc, unitVars,
                 pickVars>>

\* every Initialize gets a context of its own, with its own deadline
InitializeCallOwnCtx(p) ==
  /\ newPc = "initialize"
  /\ cur \in 1 .. Len(Producers)
  /\ p = Producers[cur]
  /\ newPc' = "initializing"
  /\ initCalls' = Append(initCalls, p)
  /\ ctx' = "armed"
  /\ UNCHANGED <<inputVars, cur, constructed, initOk, initFailed,
                 elapsedInInit, tasks, launches, wr, shop, err, loopVars, httpPc,
                 unitVars, pickVars>>

\* Initialize is called on whichever producer is not initialized yet
InitializeCallAnyOrder(p) ==
  /\ newPc = "initialize"
  /\ cur \in 1 .. Len(Producers)
  /\ p \notin initOk
  /\ newPc' = "initializing"
  /\ initCalls' = Append(initCalls, p)
  /\ UNCHANGED <<inputVars, cur, constructed, initOk, initFailed, ctx,
                 elapsedInInit, tasks, launches, wr, shop, err, loopVars, httpPc,
                 unitVars, pickVars>>

\* lines 61, 66, 71, 76: the call p.Initialize(ctx), passing the one shared ctx
InitializeCall(p) ==
  /\ newPc = "initialize"
  /\ cur \in 1 .. Len(Producers)
  /\ p = Producers[cur]
  /\ newPc' = "initializing"
  /\ initCalls' = Append(initCalls, p)
  /\ UNCHANGED <<inputVars, cur, constructed, initOk, initFailed, ctx,
                 elapsedInInit, tasks, launches, wr, shop, err, loopVars, httpPc,
                 unitVars, pickVars>>

\* the causes a producer's Initialize(ctx) can return ("" is nil): it fails
\* with the context's error once the deadline has elapsed
InitializeCauses(c) ==
  IF c = "expired" THEN {"context deadline exceeded"} ELSE {"", "initialize failed"}

\* the err of Initialize is recorded but New goes on to the next producer
InitializeReturnIgnoreErr(p) ==
  /\ newPc = "initializing"
  /\ p = Producers[cur]
  /\ \E cause \in InitializeCauses(ctx) :
       /\ IF cause = ""
            THEN initOk' = initOk \cup {p} /\ UNCHANGED initFailed
            ELSE initFailed' = initFailed \cup {p} /\ UNCHANGED initOk
       /\ cur' = IF cur = Len(Producers) THEN 0 ELSE cur + 1
       /\ newPc' = IF cur = Len(Producers) THEN "goAddress" ELSE "initialize"
       /\ UNCHANGED <<shop, err, ctx>>
  /\ UNCHANGED <<inputVars, constructed, initCalls, elapsedInInit, tasks, launches,
                 wr, loopVars, httpPc, unitVars, pickVars>>

\* lines 61-79: Initialize returns and New checks err
InitializeReturn(p) ==
  /\ newPc = "initializing"
  /\ p = Producers[cur]
  /\ \E cause \in InitializeCauses(ctx) :
       IF cause = ""
         THEN /\ initOk' = initOk \cup {p}
              /\ cur' = IF cur = Len(Producers) THEN 0 ELSE cur + 1
              /\ newPc' = IF cur = Len(Producers) THEN "goAddress" ELSE "initialize"
              /\ UNCHANGED <<initFailed, shop, err, ctx>>
         ELSE /\ initFailed' = initFailed \cup {p}
              /\ ReturnErr([msg |-> InitErrMsg[p], cause |-> cause])
              /\ UNCHANGED <<initOk, cur>>
  /\ UNCHANGED <<inputVars, constructed, initCalls, elapsedInInit, tasks, launches,
                 wr, loopVars, httpPc, unitVars, pickVars>>

\* line 81: go addressSvc.Start()
GoAddressStart ==
  /\ newPc = "goAddress"
  /\ tasks' = [tasks EXCEPT !["address"] = "running"]
  /\ launches' = [launches EXCEPT !["address"] = @ + 1]
  /\ newPc' = "goOrder"
  /\ UNCHANGED <<inputVars, cur, constructed, initCalls, initOk, initFailed, ctx,
                 elapsedInInit, wr, shop, err, loopVars, httpPc, unitVars, pickVars>>

\* line 82: go orderSvc.Start()
GoOrderStart ==
  /\ newPc = "goOrder"
  /\ tasks' = [tasks EXCEPT !["order"] = "running"]
  /\ launches' = [launches EXCEPT !["order"] = @ + 1]
  /\ newPc' = "NewChooser"
  /\ UNCHANGED <<inputVars, cur, constructed, initCalls, initOk, initFailed, ctx,
                 elapsedInInit, wr, shop, err, loopVars, httpPc, unitVars, pickVars>>

\* a background Start of a producer returns; nothing waits for it
TaskReturns(t) ==
  /\ ~exited
  /\ tasks[t] = "running"
  /\ tasks' = [tasks EXCEPT ![t] = "returned"]
  /\ UNCHANGED <<inputVars, newVars, loopVars, httpPc, unitVars, pickVars>>

\* lines 85-95: wr, err := weightedrand.NewChooser(...) and the err check
NewRandomChooser ==
  /\ newPc = "NewChooser"
  /\ LET res == NewChooser(choices)
     IN  IF res.err = ""
           THEN /\ wr' = res.chooser
                /\ newPc' = "return"
                /\ UNCHANGED <<shop, err, ctx>>
           ELSE /\ ReturnErr([msg |-> "failed to create random chooser", cause |-> res.err])
                /\ UNCHANGED wr
  /\ UNCHANGED <<inputVars, cur, constructed, initCalls, initOk, initFailed,
                 elapsedInInit, tasks, launches, loopVars, httpPc, unitVars,
                 pickVars>>

\* New waits for the background tasks before it returns the Shop
NewReturnAfterTasks ==
  /\ newPc = "return"
  /\ \A t \in Tasks : tasks[t] = "returned"
  /\ shop' = << [cfg |-> cfg, chooser |-> wr] >>
  /\ err' = NoErr
  /\ ctx' = Cancel(ctx)
  /\ newPc' = "returned"
  /\ UNCHANGED <<inputVars, cur, constructed, initCalls, initOk, initFailed,
                 elapsedInInit, tasks, launches, wr, loopVars, httpPc, unitVars,
                 pickVars>>

\* lines 97-104: return &Shop{cfg, logger, chooser: wr, customerSvc}, nil
NewReturn ==
  /\ newPc = "return"
  /\ shop' = << [cfg |-> cfg, chooser |-> wr] >>
  /\ err' = NoErr
  /\ ctx' = Cancel(ctx)
  /\ newPc' = "returned"
  /\ UNCHANGED <<inputVars, cur, constructed, initCalls, initOk, initFailed,
                 elapsedInInit, tasks, launches, wr, loopVars, httpPc, unitVars,
                 pickVars>>

\* the steps of New
NewStep ==
  \/ NewSchemaRegistryClient
  \/ \E p \in {"customer", "address", "frontend", "order"} : NewService(p)
  \/ WithTimeout
  \/ DeadlineElapses
  \/ \E p \in {"customer", "address", "frontend", "order"} : InitializeCall(p)
  \/ \E p \in {"customer", "address", "frontend", "order"} : InitializeReturn(p)
  \/ GoAddressStart
  \/ GoOrderStart
  \/ NewRandomChooser
  \/ NewReturn

\* -------------------------------------------------------------- Shop.Start
\* lines 109-114: Start is called on the Shop New returned; it registers the
\* handler and starts the goroutine around http.ListenAndServe
StartCall ==
  /\ newPc = "returned"
  /\ shop # << >>
  /\ startPc = "none"
  /\ ~exited
  /\ httpPc' = "spawned"
  /\ startPc' = "for"
  /\ i' = 0
  /\ UNCHANGED <<inputVars, newVars, tasks, ticks, counter, spawned, unitVars,
                 pickVars>>

\* line 112: http.ListenAndServe either starts serving or returns an error
ListenAndServe ==
  /\ ~exited
  /\ httpPc = "spawned"
  /\ httpPc' \in {"serving", "quit"}
  /\ UNCHANGED <<inputVars, newVars, tasks, loopVars, unitVars, pickVars>>

\* lines 112-113: the serving endpoint returns; the goroutine logs at Info level
HandlerQuit ==
  /\ ~exited
  /\ httpPc = "serving"
  /\ httpPc' = "quit"
  /\ UNCHANGED <<inputVars, newVars, tasks, loopVars, unitVars, pickVars>>

\* Inc moved out of the inner loop: the counter counts ticks, not impressions
IncOncePerTick ==
  /\ ~exited
  /\ startPc = "for"
  /\ i < shop[1].cfg.RequestRate
  /\ counter' = IF i = 0 THEN counter + 1 ELSE counter
  /\ startPc' = "dispatch"
  /\ UNCHANGED <<inputVars, newVars, tasks, i, ticks, spawned, httpPc, unitVars,
                 pickVars>>

\* lines 117-118: i < RequestRate holds; pageImpressionsSimulated.Inc()
Inc ==
  /\ ~exited
  /\ startPc = "for"
  /\ i < shop[1].cfg.RequestRate
  /\ counter' = counter + 1
  /\ startPc' = "dispatch"
  /\ UNCHANGED <<inputVars, newVars, tasks, i, ticks, spawned, httpPc, unitVars,
                 pickVars>>

\* two goroutines per iteration: more units than the counter has counted
SimulatePageImpressionTwice ==
  /\ ~exited
  /\ startPc = "dispatch"
  /\ units' = [units EXCEPT ![UnitPick] = @ + 2]
  /\ spawned' = spawned + 2
  /\ i' = i + 1
  /\ startPc' = "for"
  /\ UNCHANGED <<inputVars, newVars, tasks, ticks, counter, httpPc, picked,
                 invocations, finished, exited, lastInvoked, pickVars>>

\* a ceiling of RequestRate goroutines: the loop blocks until one has returned
SimulatePageImpressionCapped ==
  /\ ~exited
  /\ startPc = "dispatch"
  /\ units[UnitPick] + Holding(picked, Items) + units[UnitRunning]
       < shop[1].cfg.RequestRate
  /\ units' = [units EXCEPT ![UnitPick] = @ + 1]
  /\ spawned' = spawned + 1
  /\ i' = i + 1
  /\ startPc' = "for"
  /\ UNCHANGED <<inputVars, newVars, tasks, ticks, counter, httpPc, picked,
                 invocations, finished, exited, lastInvoked, pickVars>>

\* lines 119, 127-136 and the i++ of line 117: go func() { ... }()
SimulatePageImpression ==
  /\ ~exited
  /\ startPc = "dispatch"
  /\ units' = [units EXCEPT ![UnitPick] = @ + 1]
  /\ spawned' = spawned + 1
  /\ i' = i + 1
  /\ startPc' = "for"
  /\ UNCHANGED <<inputVars, newVars, tasks, ticks, counter, httpPc, picked,
                 invocations, finished, exited, lastInvoked, pickVars>>

\* the inner loop counting from 1: the tick ends one impression early
ReachSleepEarly ==
  /\ ~exited
  /\ startPc = "for"
  /\ ~(i + 1 < shop[1].cfg.RequestRate)
  /\ startPc' = "sleep"
  /\ ticks' = ticks + 1
  /\ UNCHANGED <<inputVars, newVars, tasks, i, counter, spawned, httpPc, unitVars,
                 pickVars>>

\* lines 117, 121: i < RequestRate fails; the loop reaches time.Sleep
ReachSleep ==
  /\ ~exited
  /\ startPc = "for"
  /\ ~(i < shop[1].cfg.RequestRate)
  /\ startPc' = "sleep"
  /\ ticks' = ticks + 1
  /\ UNCHANGED <<inputVars, newVars, tasks, i, counter, spawned, httpPc, unitVars,
                 pickVars>>

\* the loop waits for the goroutines of the tick before it goes on
SleepAfterWait ==
  /\ ~exited
  /\ startPc = "sleep"
  /\ ticks < MaxTicks
  /\ counter + shop[1].cfg.RequestRate <= MaxImpressions
  /\ \A u \in UnitStates : units[u] = 0
  /\ Holding(picked, Items) = 0
  /\ startPc' = "for"
  /\ i' = 0
  /\ UNCHANGED <<inputVars, newVars, tasks, ticks, counter, spawned, httpPc,
                 unitVars, pickVars>>

\* lines 121, 116: time.Sleep returns and the outer loop starts over
Sleep ==
  /\ ~exited
  /\ startPc = "sleep"
  /\ ticks < MaxTicks
  /\ counter + shop[1].cfg.RequestRate <= MaxImpressions
  /\ startPc' = "for"
  /\ i' = 0
  /\ UNCHANGED <<inputVars, newVars, tasks, ticks, counter, spawned, httpPc,
                 unitVars, pickVars>>

\* the steps of the dispatch loop
LoopStep == Inc \/ SimulatePageImpression \/ ReachSleep \/ Sleep

\* ------------------------------------------- per-impression goroutines
\* the drawn values explored for the goroutines. The step of line 130
\* depends on the draw only through the Item Pick returns, and every Item of
\* the chooser is returned for the first and for the last value of its own
\* range: these values are explored, so every Item Pick can return is picked
DrawCases(c) ==
  {v \in {0, c.total - 1} \cup {c.C[k] - 1 : k \in 1 .. Len(c.C)}
                         \cup {c.C[k] : k \in 1 .. Len(c.C)} :
     v \in DrawRange(c.total)}

\* line 130: fn, isOk := s.chooser.Pick().(func()); the goroutine now holds fn
GoFuncPick ==
  /\ ~exited
  /\ units[UnitPick] > 0
  /\ \E v \in DrawCases(shop[1].chooser) :
       LET fn == Pick(shop[1].chooser, v)
       IN  picked' = [picked EXCEPT ![fn] = @ + 1]
  /\ units' = [units EXCEPT ![UnitPick] = @ - 1]
  /\ UNCHANGED <<inputVars, newVars, tasks, loopVars, httpPc, invocations,
                 finished, exited, lastInvoked, pickVars>>

\* the failed assertion is logged and the goroutine returns
FatalReturns(fn) ==
  /\ picked' = [picked EXCEPT ![fn] = @ - 1]
  /\ finished' = finished + 1
  /\ UNCHANGED <<units, invocations, exited, lastInvoked>>

\* lines 131-133: !isOk, logger.Fatal terminates the process
Fatal(fn) ==
  /\ exited' = TRUE
  /\ UNCHANGED <<units, picked, invocations, finished, lastInvoked>>

\* the picked action is called twice by the same goroutine
InvokeTwice(fn) ==
  /\ picked' = [picked EXCEPT ![fn] = @ - 1]
  /\ units' = [units EXCEPT ![UnitRunning] = @ + 1]
  /\ invocations' = invocations + 2
  /\ lastInvoked' = fn
  /\ UNCHANGED <<finished, exited>>

\* lines 131, 134: isOk, the call fn() is made
Invoke(fn) ==
  /\ picked' = [picked EXCEPT ![fn] = @ - 1]
  /\ units' = [units EXCEPT ![UnitRunning] = @ + 1]
  /\ invocations' = invocations + 1
  /\ lastInvoked' = fn
  /\ UNCHANGED <<finished, exited>>

\* lines 131-134: a goroutine that holds fn tests isOk, then Fatal or fn()
GoFuncCall ==
  /\ ~exited
  /\ \E fn \in Items :
       /\ picked[fn] > 0
       /\ IF fn \in funcItems THEN Invoke(fn) ELSE Fatal(fn)
  /\ UNCHANGED <<inputVars, newVars, tasks, loopVars, httpPc, pickVars>>

\* lines 129-134: the steps of a goroutine up to its call
GoFunc == GoFuncPick \/ GoFuncCall

\* the goroutine counts its own impression when its action returns
ActionReturnsCounts ==
  /\ ~exited
  /\ units[UnitRunning] > 0
  /\ units' = [units EXCEPT ![UnitRunning] = @ - 1]
  /\ finished' = finished + 1
  /\ counter' = counter + 1
  /\ UNCHANGED <<inputVars, newVars, tasks, startPc, i, ticks, spawned, httpPc,
                 picked, invocations, exited, lastInvoked, pickVars>>

\* lines 134-135: fn() returns and the goroutine ends
ActionReturns ==
  /\ ~exited
  /\ units[UnitRunning] > 0
  /\ units' = [units EXCEPT ![UnitRunning] = @ - 1]
  /\ finished' = finished + 1
  /\ UNCHANGED <<inputVars, newVars, tasks, loopVars, httpPc, picked,
                 invocations, exited, lastInvoked, pickVars>>

\* the steps of the per-impression goroutines
UnitStep == GoFunc \/ ActionReturns

\* NewChooser on its own, applied to a table
ChooserNew ==
  /\ chooserRes = << >>
  /\ chooserRes' = << NewChooser(choices) >>
  /\ UNCHANGED <<inputVars, newVars, tasks, loopVars, httpPc, unitVars, lastDraw,
                 lastPick>>

\* Chooser.Pick on its own, for every value that can be drawn
ChooserPick ==
  /\ chooserRes # << >>
  /\ chooserRes[1].err = ""
  /\ \E v \in DrawRange(chooserRes[1].chooser.total) :
       /\ lastDraw' = v
       /\ lastPick' = Pick(chooserRes[1].chooser, v)
  /\ UNCHANGED <<inputVars, newVars, tasks, loopVars, httpPc, unitVars, chooserRes>>

\* ---------------------------------------------------------- specifications
Next ==
  \/ NewStep
  \/ \E t \in {"address", "order"} : TaskReturns(t)
  \/ StartCall
  \/ ListenAndServe
  \/ HandlerQuit
  \/ LoopStep
  \/ UnitStep

\* the program: New, then Start with its goroutines
Spec == Init /\ [][Next]_vars

\* the program with the dispatch loop scheduled fairly; no goroutine it
\* starts, no background task and no endpoint is assumed to make progress
FairSpec == Spec /\ WF_vars(LoopStep)

\* weight tables the functions of the chooser are applied to: up to
\* MaxChoices choices over the shop's Items, weights 0 .. MaxWeight
WeightTables ==
  UNION {{[k \in 1 .. n |-> [Item |-> ShopChoices[k].Item, Weight |-> w[k]]] :
            w \in [1 .. n -> 0 .. MaxWeight]} : n \in 0 .. MaxChoices}

\* a table for the chooser, the shop's own or a drawn one; New is not run
InitChooser ==
  /\ InitCommon
  /\ cfg.RequestRate = 1
  /\ funcItems = Items
  /\ choices \in WeightTables \cup {ShopChoices}

NextChooser == ChooserNew \/ ChooserPick

\* the functions NewChooser and Pick of the chooser applied to tables, apart
\* from the program: NewChooser on a table, then Pick for every draw
SpecChooser == InitChooser /\ [][NextChooser]_vars

\* ------------------------------------------------------------------ claims
\* RequestRate of the Shop the loop runs on
R == shop[1].cfg.RequestRate

\* per-impression goroutines that have not returned
InFlight == units[UnitPick] + Holding(picked, Items) + units[UnitRunning]

\* position of producer p in Producers
Position(p) == CHOOSE k \in 1 .. Len(Producers) : Producers[k] = p

\* C1: every time the loop reaches the interval sleep, for the k-th time, the
\* counter pageImpressionsSimulated is exactly k * RequestRate, whatever the
\* goroutines it started have done; the counter never decreases and every
\* iteration's increment is in it.
C1_CounterAtTick ==
  /\ [](startPc = "sleep" => counter = ticks * R)
  /\ [](startPc \in {"for", "dispatch"} =>
          counter = ticks * R + i + (IF startPc = "dispatch" THEN 1 ELSE 0))
  /\ [][counter' >= counter]_vars

\* C1 witness: the second sleep of a rate-2 loop is reached with one goroutine
\* not yet picked, one running and one returned
C1_Witness ==
  /\ startPc = "sleep"
  /\ ticks = 2
  /\ R = 2
  /\ counter = 4
  /\ units[UnitPick] > 0
  /\ units[UnitRunning] > 0
  /\ finished > 0

\* C2: a tick starts exactly RequestRate goroutines back-to-back and only then
\* sleeps: the sleep is entered only with i = RequestRate, and whenever the loop
\* is at its k-th sleep exactly k * RequestRate goroutines were started.
C2_IssuedPerTick ==
  /\ [](startPc = "sleep" => spawned = ticks * R)
  /\ [](startPc \in {"for", "dispatch"} => spawned = ticks * R + i)
  /\ [][(startPc # "sleep" /\ startPc' = "sleep") =>
          (i = R /\ spawned' = spawned /\ ticks' = ticks + 1)]_vars

\* C2 witness: second sleep of a rate-2 loop with none of the four goroutines
\* having returned
C2_Witness ==
  /\ startPc = "sleep"
  /\ ticks = 2
  /\ R = 2
  /\ spawned = 4
  /\ finished = 0

\* C3: once the Initialize of the producer at position k has returned an error,
\* no producer after position k has had or ever gets Initialize called, New has
\* returned an error and a nil Shop, and the dispatch loop is never started.
C3_InitFailureAborts ==
  \A p \in initFailed :
    /\ Len(initCalls) = Position(p)
    /\ initCalls[Len(initCalls)] = p
    /\ newPc = "returned"
    /\ shop = << >>
    /\ err = [msg |-> InitErrMsg[p], cause |-> err.cause]
    /\ err.cause # ""
    /\ startPc = "none"
    /\ counter = 0
    /\ spawned = 0

\* C3 witness: producer 2 of 4 failed after producer 1 succeeded
C3_Witness ==
  /\ initFailed = {"address"}
  /\ initOk = {"customer"}
  /\ initCalls = <<"customer", "address">>
  /\ newPc = "returned"

\* C4: the deadline of New is armed once, before the first Initialize, and is
\* shared by all four calls; if it elapses before the fourth Initialize has
\* returned nil, New returns a nil Shop and an error whose cause is the
\* deadline, and the dispatch loop is never started.
C4_SharedDeadline ==
  /\ [](elapsedInInit =>
          /\ newPc \in {"initialize", "initializing", "returned"}
          /\ initOk # {"customer", "address", "frontend", "order"}
          /\ startPc = "none"
          /\ counter = 0
          /\ (newPc = "returned" =>
                /\ shop = << >>
                /\ err.cause = "context deadline exceeded"))
  /\ [][(ctx' = "armed" /\ ctx # "armed") => (ctx = "none" /\ initCalls = << >>)]_vars

\* C4 witness: the deadline elapsed after two producers were initialized and
\* New has returned the deadline error
C4_Witness ==
  /\ elapsedInInit
  /\ newPc = "returned"
  /\ initOk = {"customer", "address"}
  /\ initFailed = {"frontend"}
  /\ err.cause = "context deadline exceeded"

\* C5: the dispatch loop never waits for a goroutine it started: scheduled
\* fairly, a running loop that has completed k ticks completes tick k+1, also
\* when no started action ever returns; the only thing that stops it is the
\* termination of the process by logger.Fatal. Stated for the ticks whose
\* impressions are within MaxTicks and MaxImpressions.
C5_LoopProgress ==
  \A k \in 0 .. (MaxTicks - 1) :
    (startPc # "none" /\ ticks = k /\ ticks * R + R <= MaxImpressions)
      ~> (ticks = k + 1 \/ exited)

\* C5 witness: the loop completed two ticks of rate 2 while all four actions
\* it dispatched are still running
C5_Witness ==
  /\ startPc = "sleep"
  /\ ticks = 2
  /\ units[UnitRunning] = 4
  /\ finished = 0
  /\ ~exited

\* C6: an impression is issued, and Start runs, only on a Shop for which the
\* schema-registry client and all four producers were constructed, all four
\* Initialize calls returned nil and the chooser was built; when New returns
\* an error it returns a nil Shop and Start never runs.
C6_NoPartialStartup ==
  /\ (startPc # "none" \/ counter > 0 \/ spawned > 0) =>
        /\ constructed = {"srClient", "customer", "address", "frontend", "order"}
        /\ initOk = {"customer", "address", "frontend", "order"}
        /\ initFailed = {}
        /\ wr # NilChooser
        /\ shop = << [cfg |-> cfg, chooser |-> wr] >>
        /\ err = NoErr
  /\ (newPc = "returned" /\ err # NoErr) => (shop = << >> /\ startPc = "none")
  /\ (newPc = "returned" /\ err = NoErr) => shop # << >>

\* C6 witness: impressions are being issued after a complete startup
C6_Witness ==
  /\ counter > 1
  /\ spawned > 1
  /\ initOk = {"customer", "address", "frontend", "order"}

\* C7: a goroutine whose picked Item is not a func() terminates the process
\* and invokes nothing; no goroutine ever leaves without having invoked its
\* picked action. Every goroutine started is still in flight or has made its
\* call; a goroutine that holds an Item leaves line 131 only by calling that
\* Item, a func(); a goroutine that holds an Item is never blocked, and one
\* that holds an Item that is not a func() does nothing but logger.Fatal; and
\* the process is terminated only by such a goroutine, which made no call.
C7_FatalNotDropped ==
  /\ [](spawned = InFlight + finished /\ invocations = units[UnitRunning] + finished)
  /\ [](exited => \E fn \in Items \ funcItems : picked[fn] > 0)
  /\ []((~exited /\ \E fn \in Items : picked[fn] > 0) => ENABLED GoFuncCall)
  /\ [][\A fn \in Items : picked'[fn] < picked[fn] =>
          /\ fn \in funcItems
          /\ picked'[fn] = picked[fn] - 1
          /\ lastInvoked' = fn
          /\ invocations' = invocations + 1
          /\ units'[UnitRunning] = units[UnitRunning] + 1]_vars
  /\ [][(exited' /\ ~exited) =>
          /\ \E fn \in Items \ funcItems : picked[fn] > 0
          /\ units' = units
          /\ picked' = picked
          /\ invocations' = invocations
          /\ finished' = finished]_vars

\* C7 witness: a goroutine holding CreateOrder, which is not a func(), has
\* terminated the process; it is still counted at line 131, another
\* goroutine made its call after CreateOrder was picked and is running
C7_Witness ==
  /\ exited
  /\ "CreateOrder" \notin funcItems
  /\ picked["CreateOrder"] = 1
  /\ units[UnitRunning] > 0
  /\ lastInvoked = "CreateFrontendEvent"

\* sum of the weights of the first k entries of a table
RECURSIVE SumWeights(_, _)
SumWeights(cs, k) == IF k = 0 THEN 0 ELSE SumWeights(cs, k - 1) + cs[k].Weight

\* every entry of the table has a strictly positive weight
AllPositive(cs) == \A k \in 1 .. Len(cs) : cs[k].Weight > 0

\* the smallest 1-based index k of the table with cumulative weight above r
LeastAbove(cs, r) ==
  CHOOSE k \in 1 .. Len(cs) :
    /\ SumWeights(cs, k) > r
    /\ \A j \in 1 .. (k - 1) : SumWeights(cs, j) <= r

\* C8: weighted selection is exactly proportional. For every weight table
\* with positive weights, cumulative sums C and total T, and for every drawn
\* value r in [0, T), pick returns the action at the smallest index i with
\* C[i] > r; r lies in that entry's own weight range, and exactly w_i of the
\* T possible values of r select entry i.
C8_PickProportional ==
  (lastDraw >= 0 /\ AllPositive(choices)) =>
    LET c == chooserRes[1].chooser
        T == SumWeights(choices, Len(choices))
        k == LeastAbove(choices, lastDraw)
    IN  /\ chooserRes[1].err = ""
        /\ c.total = T
        /\ \A j \in 1 .. Len(choices) : c.C[j] = SumWeights(choices, j)
        /\ lastDraw \in 0 .. (T - 1)
        /\ PickIndex(c, lastDraw) = k - 1
        /\ lastPick = choices[k].Item
        /\ SumWeights(choices, k) - choices[k].Weight <= lastDraw
        /\ lastDraw < SumWeights(choices, k)
        /\ \A j \in 1 .. Len(choices) :
             Cardinality({v \in 0 .. (T - 1) : PickIndex(c, v) = j - 1})
               = choices[j].Weight

\* C8 witness: on the shop's own table the draw 1000, the first value past
\* the 1000 values of CreateFrontendEvent, selects CreateCustomer
C8_Witness ==
  /\ choices = ShopChoices
  /\ chooserRes # << >>
  /\ lastDraw = 1000
  /\ lastPick = "CreateCustomer"

\* C10 as claimed: once the metrics endpoint has failed to start or has quit,
\* the dispatch loop issues no further impression.
C10_NoTrafficWithoutMetrics ==
  [][httpPc = "quit" => (spawned' = spawned /\ counter' = counter)]_vars

\* C11 as claimed: every error New returns names the component that failed
\* and carries the cause it was given.
C11_ErrorsWrapCause ==
  (newPc = "returned" /\ err # NoErr) => (err.msg # "" /\ err.cause # "")

\* C12: the Initialize calls are made in the order customer, address,
\* frontend, order, each at most once; a call is made only when every earlier
\* call has returned nil, so at most one call is running, and it is the last.
C12_SequentialInitialize ==
  /\ [](/\ Len(initCalls) <= Len(Producers)
        /\ \A k \in 1 .. Len(initCalls) : initCalls[k] = Producers[k]
        /\ \A k \in 1 .. (Len(initCalls) - 1) : initCalls[k] \in initOk
        /\ (initOk \cup initFailed) \subseteq {initCalls[k] : k \in 1 .. Len(initCalls)}
        /\ initOk \cap initFailed = {}
        /\ (newPc = "initializing" <=>
              (Len(initCalls) > 0
                 /\ initCalls[Len(initCalls)] \notin (initOk \cup initFailed))))
  /\ [][initCalls' # initCalls =>
          /\ newPc = "initialize"
          /\ initCalls' = Append(initCalls, Producers[Len(initCalls) + 1])
          /\ {initCalls[k] : k \in 1 .. Len(initCalls)} = initOk]_vars

\* C12 witness: the fourth Initialize is running after the first three
\* returned nil
C12_Witness ==
  /\ newPc = "initializing"
  /\ initCalls = <<"customer", "address", "frontend", "order">>
  /\ initOk = {"customer", "address", "frontend"}

\* C13: addressSvc.Start and orderSvc.Start are launched at most once each and
\* only after all four Initialize calls returned nil; once an Initialize has
\* failed none is launched; New does not wait for them: past the go statements
\* its next step is enabled while they run, and a Shop is returned with both
\* launched exactly once.
C13_BackgroundTasks ==
  /\ \A t \in Tasks :
       /\ launches[t] <= 1
       /\ (launches[t] = 0 <=> tasks[t] = "none")
       /\ launches[t] = 1 =>
            (initOk = {"customer", "address", "frontend", "order"} /\ initFailed = {})
  /\ initFailed # {} => \A t \in Tasks : launches[t] = 0
  /\ shop # << >> => \A t \in Tasks : launches[t] = 1
  /\ newPc = "goOrder" => ENABLED GoOrderStart
  /\ newPc = "return" => ENABLED NewReturn

\* C13 witness: New is about to return the Shop while both Start goroutines
\* are still running
C13_Witness ==
  /\ newPc = "return"
  /\ tasks = [t \in Tasks |-> "running"]
  /\ launches = [t \in Tasks |-> 1]

\* C15: in every iteration of the loop of Start the counter is incremented
\* before the impression is dispatched: the counter is the number of goroutines
\* spawned so far, or one more, never less; it is one more exactly between the
\* Inc and the SimulatePageImpression of an iteration.
C15_IncBeforeDispatch ==
  /\ counter - spawned \in {0, 1}
  /\ counter >= spawned
  /\ (startPc = "dispatch" <=> counter = spawned + 1)
  /\ (startPc \in {"for", "sleep"} => counter = spawned)

\* C15 witness: in the second tick the counter was incremented and the
\* impression of that iteration is not dispatched yet
C15_Witness ==
  /\ startPc = "dispatch"
  /\ ticks >= 1
  /\ spawned >= R
  /\ counter = spawned + 1

\* C16: every impression resolves to exactly one action. The calls made never
\* outnumber the goroutines spawned, which never outnumber the impressions
\* counted; a goroutine is before its Pick, holds the one Item it picked, or
\* has made its one call. A Pick is made by a goroutine that has not picked
\* yet and gives it one Item of the table; a call is made only by a goroutine
\* that holds an Item, it is one call, and it calls that Item; a goroutine
\* that has made its call makes no further Pick and no further call; the only
\* goroutine that picks and calls nothing is one that holds an Item that is
\* not a func(), whose only step terminates the process.
C16_OneActionPerImpression ==
  /\ [](/\ invocations <= spawned
        /\ spawned <= counter
        /\ finished <= invocations
        /\ invocations - finished = units[UnitRunning]
        /\ spawned - invocations = units[UnitPick] + Holding(picked, Items))
  /\ [][invocations' # invocations =>
          /\ invocations' = invocations + 1
          /\ units'[UnitPick] = units[UnitPick]
          /\ units'[UnitRunning] = units[UnitRunning] + 1
          /\ lastInvoked' \in funcItems
          /\ picked[lastInvoked'] > 0
          /\ picked' = [picked EXCEPT ![lastInvoked'] = @ - 1]]_vars
  /\ [][(units'[UnitPick] < units[UnitPick]) =>
          /\ units'[UnitPick] = units[UnitPick] - 1
          /\ invocations' = invocations
          /\ lastInvoked' = lastInvoked
          /\ \E k \in 1 .. Len(choices) :
               picked' = [picked EXCEPT ![choices[k].Item] = @ + 1]]_vars
  /\ [][(picked' # picked /\ units'[UnitPick] = units[UnitPick]) =>
          invocations' = invocations + 1]_vars
  /\ [][(units'[UnitRunning] < units[UnitRunning]) =>
          /\ finished' = finished + 1
          /\ invocations' = invocations
          /\ picked' = picked
          /\ units'[UnitPick] = units[UnitPick]
          /\ lastInvoked' = lastInvoked]_vars

\* C16 witness: of the impressions of two ticks one goroutine has not picked
\* yet, one holds CreateOrder while the last call made was of
\* CreateFrontendEvent, one is inside its action and one has returned
C16_Witness ==
  /\ ~exited
  /\ shop # << >>
  /\ R = MaxRate
  /\ spawned = MaxTicks * R
  /\ units[UnitPick] >= 1
  /\ picked["CreateOrder"] >= 1
  /\ lastInvoked = "CreateFrontendEvent"
  /\ units[UnitRunning] >= 1
  /\ finished >= 1

\* C17: the goroutines in flight are not limited. While no action has
\* completed every goroutine spawned is in flight, RequestRate more at every
\* arrival at time.Sleep; every spawn adds one to the goroutines in flight;
\* and no step of the loop waits for a goroutine: whatever the number in
\* flight, the dispatch, the loop test and the wake-up from the sleep are
\* enabled, so the next tick issues RequestRate impressions again.
C17_NoConcurrencyCeiling ==
  /\ [](finished = 0 => InFlight = spawned)
  /\ []((finished = 0 /\ startPc = "sleep") => InFlight = ticks * R)
  /\ []((startPc = "dispatch" /\ ~exited) => ENABLED SimulatePageImpression)
  /\ []((startPc = "for" /\ ~exited) => ENABLED (Inc \/ ReachSleep))
  /\ []((startPc = "sleep" /\ ~exited /\ ticks < MaxTicks
           /\ counter + R <= MaxImpressions) => ENABLED Sleep)
  /\ [][spawned' # spawned => InFlight' = InFlight + 1]_vars

\* C17 witness: no action completed and the last tick explored still issued
\* RequestRate impressions on top of the ones in flight: MaxTicks * MaxRate
\* goroutines are in flight at the sleep
C17_Witness ==
  /\ ~exited
  /\ startPc = "sleep"
  /\ R = MaxRate
  /\ ticks = MaxTicks
  /\ finished = 0
  /\ InFlight = MaxTicks * MaxRate

\* C18: once New has returned, no step changes the Shop it returned (its
\* chooser with the sorted table and the running totals, and its config), the
\* config or the weight table: not a step of the loop, of a goroutine or of a
\* Start of a producer. The counter changes only by the Inc of the loop, by
\* one, and that step is not a step of a goroutine; a step of a goroutine
\* (a pick, a call, a return, the termination) leaves the counter alone.
C18_SharedStateImmutable ==
  /\ [][newPc = "returned" =>
          /\ shop' = shop
          /\ wr' = wr
          /\ cfg' = cfg
          /\ choices' = choices
          /\ funcItems' = funcItems]_vars
  /\ [][counter' # counter =>
          /\ startPc = "for"
          /\ startPc' = "dispatch"
          /\ counter' = counter + 1
          /\ unitVars' = unitVars
          /\ pickVars' = pickVars
          /\ tasks' = tasks]_vars
  /\ [][(invocations' # invocations \/ finished' # finished \/ exited' # exited
           \/ pickVars' # pickVars \/ tasks' # tasks)
          => (counter' = counter /\ spawned' = spawned)]_vars

\* C18 witness: the Shop is in use after two ticks: goroutines picked, called
\* and returned, a Start of a producer returned, and the Shop is the one New
\* returned
C18_Witness ==
  /\ newPc = "returned"
  /\ shop # << >>
  /\ shop[1].chooser = wr
  /\ shop[1].cfg = cfg
  /\ counter = MaxTicks * R
  /\ R = MaxRate
  /\ finished >= 1
  /\ units[UnitRunning] >= 1
  /\ \E t \in Tasks : tasks[t] = "returned"

\* C19: in New construction comes before initialization. While a constructor
\* is still to run no Initialize has been called and the deadline context does
\* not exist; an Initialize is called only with the schema-registry client and
\* all four producers constructed; and when a constructor fails New returns
\* its error with no producer initialized, no Start launched and no Shop.
C19_ConstructBeforeInitialize ==
  /\ []((initCalls # << >> \/ initOk # {} \/ initFailed # {} \/ ctx # "none")
          => constructed = {"srClient"} \cup {Producers[k] : k \in 1 .. Len(Producers)})
  /\ [](newPc \in {"srClient", "construct"} =>
          /\ initCalls = << >>
          /\ \A t \in Tasks : launches[t] = 0)
  /\ []((/\ newPc = "returned"
          /\ err # NoErr
          /\ \/ err.msg = "failed to create schema registry client"
             \/ \E p \in DOMAIN CreateErrMsg : err.msg = CreateErrMsg[p])
          => /\ initCalls = << >>
             /\ initOk = {}
             /\ initFailed = {}
             /\ \A t \in Tasks : launches[t] = 0 /\ tasks[t] = "none"
             /\ shop = << >>
             /\ startPc = "none")
  /\ [][constructed' # constructed => (initCalls = << >> /\ initCalls' = << >>)]_vars

\* C19 witness: the last constructor, NewOrderService, failed after the other
\* four succeeded, and New returned without initializing any producer
C19_Witness ==
  /\ newPc = "returned"
  /\ err # NoErr
  /\ err.msg = CreateErrMsg["order"]
  /\ constructed = {"srClient", "customer", "address", "frontend"}
  /\ initCalls = << >>

====
